---------------------------- MODULE Spec2Model ----------------------------
(***************************************************************************)
(* A model of CFDppParser (src/cfdppparser.py): the result extractor of    *)
(* a CFD++ case directory.                                                 *)
(*                                                                         *)
(* A text file is the sequence of its lines and a line is the sequence of  *)
(* the fields that line.split() yields; the fields are strings.  A float   *)
(* is a fixed-point number, an integer count of 1/Scale.                   *)
(***************************************************************************)
EXTENDS Integers, Sequences, FiniteSets, TLC

(***************************************************************************)
(* Bounds of the model.                                                    *)
(***************************************************************************)
\* resolution of the fixed-point floats: 1.0 is Scale
Scale == 100
\* Process calls made on one object
MaxRuns == 2
\* lines of a run log of the reference-condition family
MaxRefLen == 2
\* lines of the boundary part of a run log of the boundary family
MaxBcLen == 3
\* lines a force/moment report has beyond one or two whole blocks
MaxHead == 2
\* lines of a geometry file of the geometry family
MaxGeomLen == 2
\* most lines before the base log in the wing family
MaxWingLen == 2

(***************************************************************************)
(* Program constants.                                                      *)
(***************************************************************************)
const_R == 287
\* const_gamma = 1.4, in tenths
const_gamma10 == 14
\* lines of one boundary block of mcfd.info1
BlockLines == 23
\* the value the axis indices are constructed with
NoIndex == -99

(***************************************************************************)
(* Parsing: float(s) and int(s) of a field.  A numeral parses, any other   *)
(* field raises ValueError.  "2.5" is a float and no int.                  *)
(***************************************************************************)
IntNumerals == {"0", "1", "2", "3", "4", "5", "7", "574"}
FloatNumerals == IntNumerals \cup {"2.5"}

IntValue(s) ==
    CASE s = "0" -> 0 [] s = "1" -> 1 [] s = "2" -> 2 [] s = "3" -> 3
      [] s = "4" -> 4 [] s = "5" -> 5 [] s = "7" -> 7 [] s = "574" -> 574

IsInt(s) == s \in IntNumerals
IsFloat(s) == s \in FloatNumerals
FloatValue(s) == IF s = "2.5" THEN (5 * Scale) \div 2 ELSE IntValue(s) * Scale

(***************************************************************************)
(* Float arithmetic on fixed-point numbers.                                *)
(***************************************************************************)
FMul(a, b) == (a * b) \div Scale
\* a / b for b # 0; the callers raise ZeroDivisionError for b = 0
FDiv(a, b) == (a * Scale) \div b

RECURSIVE ISqrtIn(_, _, _)
ISqrtIn(v, lo, hi) ==
    IF lo >= hi THEN lo
    ELSE LET mid == (lo + hi + 1) \div 2
         IN  IF mid * mid <= v THEN ISqrtIn(v, mid, hi) ELSE ISqrtIn(v, lo, mid - 1)
\* math.sqrt(a) for a >= 0
FSqrt(a) == ISqrtIn(a * Scale, 0, 40000)

(***************************************************************************)
(* "token in line" for a token without blanks: some field holds it.  The   *)
(* fields of the model that hold a token as a proper substring are listed. *)
(***************************************************************************)
FieldHas(f, tok) ==
    \/ f = tok
    \/ f = "aero_pres_ref" /\ tok = "aero_pres"
    \/ f = "symm_plane" /\ tok = "plane"

LineHas(line, tok) == \E i \in 1..Len(line) : FieldHas(line[i], tok)

\* "# No-slip adiabatic wall" in line: the four words in a row
HasNoSlipMarker(line) ==
    \E i \in 1..(Len(line) - 3) :
        /\ line[i] = "#"
        /\ line[i + 1] = "No-slip"
        /\ line[i + 2] = "adiabatic"
        /\ line[i + 3] = "wall"

(***************************************************************************)
(* Python indexing of a list by a 0-based index, negative ones counting    *)
(* from the end.  InRange is false where Python raises IndexError.         *)
(***************************************************************************)
InRange(seq, i) == -Len(seq) <= i /\ i < Len(seq)
At(seq, i) == IF i >= 0 THEN seq[i + 1] ELSE seq[Len(seq) + i + 1]


(***************************************************************************)
(* The fields of a CFDppParser object as __init__ leaves them.             *)
(* SymmPlaneType is the attribute __ReadRefGeomVals creates; it is "unset" *)
(* until then.                                                             *)
(***************************************************************************)
Zero3 == <<0, 0, 0>>

InitFields ==
    [ symmPlane |-> "none", SymmPlaneType |-> "unset",
      indexLift |-> NoIndex, indexDrag |-> NoIndex, indexSide |-> NoIndex,
      refPres |-> 0, refTemp |-> 0, refVels |-> Zero3,
      refVmag |-> 0, refDens |-> 0, refMach |-> 0,
      numBounds |-> 0, noSlipWalls |-> <<>>,
      alpha |-> 0, refArea |-> 0, refLength |-> 0, refOrign |-> Zero3,
      force_tol |-> Zero3, force_inv |-> Zero3, force_vis |-> Zero3,
      moment |-> Zero3,
      div_moment |-> 0, xCenterOfPressure |-> 0,
      idUpper |-> -1, idLower |-> -1 ]

\* a reader's outcome: ok is FALSE where the reader's except clause runs
\* exit(1); s holds the fields as the reader left them
Ok(s) == [ok |-> TRUE, s |-> s]
Raised(s) == [ok |-> FALSE, s |-> s]

(***************************************************************************)
(* __ReadRefVals                                                           *)
(***************************************************************************)
RefTokens == <<"aero_pres", "aero_temp", "aero_u", "aero_v", "aero_w">>

SetRef(s, k, v) ==
    CASE k = 1 -> [s EXCEPT !.refPres = v]
      [] k = 2 -> [s EXCEPT !.refTemp = v]
      [] k = 3 -> [s EXCEPT !.refVels[1] = v]
      [] k = 4 -> [s EXCEPT !.refVels[2] = v]
      [] k = 5 -> [s EXCEPT !.refVels[3] = v]

\* the number of fields a reference line must have
RefFieldCount == 3

\* RefMatches with ">= 3" for "== 3"
RefMatchesAtLeast(line, tok) == LineHas(line, tok) /\ Len(line) >= RefFieldCount

\* one "if token in line and len(line.split()) == 3" statement
RefMatches(line, tok) == LineHas(line, tok) /\ Len(line) = RefFieldCount

\* the five statements of the loop body on one line, from statement k on
RECURSIVE RefLineFrom(_, _, _)
RefLineFrom(r, line, k) ==
    IF ~r.ok \/ k > Len(RefTokens) THEN r
    ELSE IF RefMatches(line, RefTokens[k])
         THEN IF IsFloat(line[3])
              THEN RefLineFrom(Ok(SetRef(r.s, k, FloatValue(line[3]))), line, k + 1)
              ELSE Raised(r.s)
         ELSE RefLineFrom(r, line, k + 1)

\* "for line in lines", from line i (1-based) on
RECURSIVE RefScanFrom(_, _, _)
RefScanFrom(r, lines, i) ==
    IF ~r.ok \/ i > Len(lines) THEN r
    ELSE RefScanFrom(RefLineFrom(r, lines[i], 1), lines, i + 1)

\* the velocity magnitude: refVmag += vel*vel for each vel, then the root
VmagOf(s) ==
    FSqrt(s.refVmag + FMul(s.refVels[1], s.refVels[1])
                    + FMul(s.refVels[2], s.refVels[2])
                    + FMul(s.refVels[3], s.refVels[3]))

SoundSpeed(s) ==
    FSqrt(FMul(FMul((const_gamma10 * Scale) \div 10, const_R * Scale), s.refTemp))

RefDerive(s) ==
    LET s1 == [s EXCEPT !.refVmag = VmagOf(s)]
    IN  IF s1.refTemp = 0 THEN Raised(s1)     \* ZeroDivisionError
        ELSE LET s2 == [s1 EXCEPT !.refDens =
                           FDiv(FDiv(s1.refPres, const_R * Scale), s1.refTemp)]
             IN  Ok([s2 EXCEPT !.refMach = FDiv(s2.refVmag, SoundSpeed(s2))])

ReadRefVals(s, logFile) ==
    IF ~logFile.exists THEN Raised(s)
    ELSE LET r == RefScanFrom(Ok(s), logFile.lines, 1)
         IN  IF r.ok THEN RefDerive(r.s) ELSE r


(***************************************************************************)
(* __ReadBcInfos                                                           *)
(***************************************************************************)
\* the first line with "mbcons" and three fields, 0 when there is none
RECURSIVE FirstCountLine(_, _)
FirstCountLine(lines, i) ==
    IF i > Len(lines) THEN 0
    ELSE IF RefMatches(lines[i], "mbcons") THEN i
    ELSE FirstCountLine(lines, i + 1)

\* "for line in lines: if ...: self.numBounds = int(...); break"
ReadNumBounds(s, lines) ==
    LET i == FirstCountLine(lines, 1)
    IN  IF i = 0 THEN Ok(s)
        ELSE IF IsInt(lines[i][3])
             THEN Ok([s EXCEPT !.numBounds = IntValue(lines[i][3])])
             ELSE Raised(s)

\* ListIndex as lines.index(line): the search starts at the first line
RECURSIVE FirstEqual(_, _, _)
FirstEqual(lines, line, q) ==
    IF q >= Len(lines) THEN 0 - 1
    ELSE IF lines[q + 1] = line THEN q
    ELSE FirstEqual(lines, line, q + 1)
ListIndexFromZero(lines, line, start) == FirstEqual(lines, line, 0)

\* lines.index(line, start, len(lines)): the 0-based index of the first line
\* equal to line at or after start, -1 where Python raises ValueError
RECURSIVE ListIndex(_, _, _)
ListIndex(lines, line, start) ==
    IF start >= Len(lines) THEN 0 - 1
    ELSE IF lines[start + 1] = line THEN start
    ELSE ListIndex(lines, line, start + 1)

\* the line a marker found at 0-based index sta takes its boundary index from
HeaderIndex(sta) == sta - 2

\* the body of "if marker in line", with staIndex as the loop left it
NoSlipStep(s, lines, line, staIndex) ==
    LET sta == ListIndex(lines, line, staIndex)
    IN  IF sta < 0 \/ ~InRange(lines, HeaderIndex(sta)) THEN [r |-> Raised(s), sta |-> staIndex]
        ELSE LET head == At(lines, HeaderIndex(sta))
             IN  IF Len(head) < 2 \/ ~IsInt(head[2])
                 THEN [r |-> Raised(s), sta |-> sta]
                 ELSE [r |-> Ok([s EXCEPT !.noSlipWalls =
                                      Append(@, IntValue(head[2]))]),
                       sta |-> sta + 1]

\* "for line in lines" of the no-slip scan, from line i (1-based) on
RECURSIVE NoSlipScanFrom(_, _, _, _)
NoSlipScanFrom(r, lines, i, staIndex) ==
    IF ~r.ok \/ i > Len(lines) THEN r
    ELSE IF HasNoSlipMarker(lines[i])
         THEN LET st == NoSlipStep(r.s, lines, lines[i], staIndex)
              IN  NoSlipScanFrom(st.r, lines, i + 1, st.sta)
         ELSE NoSlipScanFrom(r, lines, i + 1, staIndex)

ReadBcInfos(s, logFile) ==
    IF ~logFile.exists THEN Raised(s)
    ELSE LET r == ReadNumBounds(s, logFile.lines)
         IN  IF r.ok THEN NoSlipScanFrom(r, logFile.lines, 1, 0) ELSE r


(***************************************************************************)
(* IsClDriverCase: the value returned, given that the log can be opened    *)
(***************************************************************************)
IsClDriverLog(lines) ==
    \E i \in 1..Len(lines) : LineHas(lines[i], "cldriver_controls")

(***************************************************************************)
(* __ReadRefGeomVals                                                       *)
(***************************************************************************)
GeomKeys == <<"alpha", "axref", "lxref", "xcen", "ycen", "zcen">>

SetGeom(s, k, v) ==
    CASE k = 1 -> [s EXCEPT !.alpha = v]
      [] k = 2 -> [s EXCEPT !.refArea = v]
      [] k = 3 -> [s EXCEPT !.refLength = v]
      [] k = 4 -> [s EXCEPT !.refOrign[1] = v]
      [] k = 5 -> [s EXCEPT !.refOrign[2] = v]
      [] k = 6 -> [s EXCEPT !.refOrign[3] = v]

\* the branch on the word after "plane"
SetPlane(s, plane) ==
    IF plane = "xy"
    THEN [s EXCEPT !.SymmPlaneType = "xyPlane",
                   !.indexDrag = 0, !.indexLift = 1, !.indexSide = 2]
    ELSE [s EXCEPT !.SymmPlaneType = "xzPlane",
                   !.indexDrag = 0, !.indexLift = 2, !.indexSide = 1]

\* the "plane" statement of the loop body
GeomPlane(r, line) ==
    IF ~r.ok \/ ~LineHas(line, "plane") THEN r
    ELSE IF Len(line) < 2 THEN Raised(r.s)
    ELSE Ok(SetPlane(r.s, line[2]))

\* the statements of the loop body on one line, from statement k on
RECURSIVE GeomLineFrom(_, _, _)
GeomLineFrom(r, line, k) ==
    IF ~r.ok THEN r
    ELSE IF k > Len(GeomKeys) THEN GeomPlane(r, line)
    ELSE IF LineHas(line, GeomKeys[k])
         THEN IF Len(line) >= 2 /\ IsFloat(line[2])
              THEN GeomLineFrom(Ok(SetGeom(r.s, k, FloatValue(line[2]))), line, k + 1)
              ELSE Raised(r.s)
         ELSE GeomLineFrom(r, line, k + 1)

RECURSIVE GeomScanFrom(_, _, _)
GeomScanFrom(r, lines, i) ==
    IF ~r.ok \/ i > Len(lines) THEN r
    ELSE GeomScanFrom(GeomLineFrom(r, lines[i], 1), lines, i + 1)

\* the choice of infFileName with its branches exchanged
GeomFileNameSwapped(logFile) ==
    IF IsClDriverLog(logFile.lines) THEN "infin" ELSE "infout"

\* infFileName: the geometry file chosen by IsClDriverCase()
GeomFileName(logFile) ==
    IF IsClDriverLog(logFile.lines) THEN "infout" ELSE "infin"

\* the file the geometry values are read from
GeomSource(logFile, infinFile, infoutFile) ==
    IF GeomFileName(logFile) = "infout" THEN infoutFile ELSE infinFile

ReadRefGeomVals(s, logFile, infinFile, infoutFile) ==
    IF ~logFile.exists THEN Raised(s)
    ELSE LET infFile == GeomSource(logFile, infinFile, infoutFile)
         IN  IF ~infFile.exists THEN Raised(s)
             ELSE GeomScanFrom(Ok(s), infFile.lines, 1)

(***************************************************************************)
(* __ReadForces                                                            *)
(***************************************************************************)
\* the twelve accumulating statements of one boundary: the field, its
\* component, the line's offset from blockIndex and the column read
ForceStmts ==
    << [fld |-> "force_tol", c |-> 1, off |-> 3, col |-> 2],
       [fld |-> "force_inv", c |-> 1, off |-> 3, col |-> 3],
       [fld |-> "force_vis", c |-> 1, off |-> 3, col |-> 4],
       [fld |-> "force_tol", c |-> 2, off |-> 4, col |-> 2],
       [fld |-> "force_inv", c |-> 2, off |-> 4, col |-> 3],
       [fld |-> "force_vis", c |-> 2, off |-> 4, col |-> 4],
       [fld |-> "force_tol", c |-> 3, off |-> 5, col |-> 2],
       [fld |-> "force_inv", c |-> 3, off |-> 5, col |-> 3],
       [fld |-> "force_vis", c |-> 3, off |-> 5, col |-> 4],
       [fld |-> "moment",    c |-> 1, off |-> 6, col |-> 2],
       [fld |-> "moment",    c |-> 2, off |-> 7, col |-> 2],
       [fld |-> "moment",    c |-> 3, off |-> 8, col |-> 2] >>

AddLoad(s, fld, c, v) ==
    CASE fld = "force_tol" -> [s EXCEPT !.force_tol[c] = @ + v]
      [] fld = "force_inv" -> [s EXCEPT !.force_inv[c] = @ + v]
      [] fld = "force_vis" -> [s EXCEPT !.force_vis[c] = @ + v]
      [] fld = "moment"    -> [s EXCEPT !.moment[c] = @ + v]

\* float(lines[idx].split()[col]) can be evaluated
CanReadFloat(lines, idx, col) ==
    /\ InRange(lines, idx)
    /\ Len(At(lines, idx)) > col
    /\ IsFloat(At(lines, idx)[col + 1])

ReadFloat(lines, idx, col) == FloatValue(At(lines, idx)[col + 1])

\* staIndex = numLines-23*self.numBounds+1
StaIndex(numLines, numBounds) == numLines - BlockLines * numBounds + 1
\* blockIndex = staIndex+ibc*23
BlockIndex(numLines, numBounds, ibc) ==
    StaIndex(numLines, numBounds) + ibc * BlockLines

\* the statements of one no-slip boundary, from statement k on
RECURSIVE BlockFrom(_, _, _, _)
BlockFrom(r, lines, blockIndex, k) ==
    IF ~r.ok \/ k > Len(ForceStmts) THEN r
    ELSE LET st == ForceStmts[k]
         IN  IF CanReadFloat(lines, blockIndex + st.off, st.col)
             THEN BlockFrom(Ok(AddLoad(r.s, st.fld, st.c,
                                       ReadFloat(lines, blockIndex + st.off, st.col))),
                            lines, blockIndex, k + 1)
             ELSE Raised(r.s)

\* IsNoSlip with "ibc" for "ibc+1"
IsNoSlipOffByOne(s, ibc) == \E j \in 1..Len(s.noSlipWalls) : s.noSlipWalls[j] = ibc

\* "ibc+1 in self.noSlipWalls"
IsNoSlip(s, ibc) == \E j \in 1..Len(s.noSlipWalls) : s.noSlipWalls[j] = ibc + 1

\* "for ibc in range(self.numBounds)", from ibc on
RECURSIVE ForcesFrom(_, _, _)
ForcesFrom(r, lines, ibc) ==
    IF ~r.ok \/ ibc >= r.s.numBounds THEN r
    ELSE IF IsNoSlip(r.s, ibc)
         THEN ForcesFrom(BlockFrom(r, lines,
                                   BlockIndex(Len(lines), r.s.numBounds, ibc), 1),
                         lines, ibc + 1)
         ELSE ForcesFrom(r, lines, ibc + 1)

ReadForces(s, info1File) ==
    IF ~info1File.exists THEN Raised(s)
    ELSE ForcesFrom(Ok(s), info1File.lines, 0)

(***************************************************************************)
(* __Validate: the value it returns                                        *)
(***************************************************************************)
Validate(dirExists, logFile, info1File, infinFile, infoutFile) ==
    /\ dirExists
    /\ logFile.exists
    /\ info1File.exists
    /\ (infinFile.exists \/ infoutFile.exists)

(***************************************************************************)
(* Process: the four readers in order; the first that raises ends the      *)
(* program with exit(1)                                                    *)
(***************************************************************************)
\* a reader's outcome with the reader's name
Step(r, name) == [ok |-> r.ok, s |-> r.s, step |-> IF r.ok THEN "" ELSE name]

ProcessOutcome(s, logFile, info1File, infinFile, infoutFile) ==
    LET r1 == ReadRefVals(s, logFile)
    IN  IF ~r1.ok THEN Step(r1, "ReadRefVals")
        ELSE LET r2 == ReadBcInfos(r1.s, logFile)
             IN  IF ~r2.ok THEN Step(r2, "ReadBcInfos")
                 ELSE LET r3 == ReadRefGeomVals(r2.s, logFile, infinFile, infoutFile)
                      IN  IF ~r3.ok THEN Step(r3, "ReadRefGeomVals")
                          ELSE Step(ReadForces(r3.s, info1File), "ReadForces")

(***************************************************************************)
(* The open() and close() calls of the operations, in the order made.  A   *)
(* reader opens its file before its loop and closes it after; a reader     *)
(* that raises leaves the file it opened unclosed, and exit(1) follows.    *)
(***************************************************************************)
Open(f) == [ev |-> "open", f |-> f]
Close(f) == [ev |-> "close", f |-> f]

\* one reader: f is the file's name, ok whether the statements after open()
\* all completed
ReaderEvents(f, exists, ok) ==
    IF ~exists THEN <<>>
    ELSE IF ok THEN <<Open(f), Close(f)>> ELSE <<Open(f)>>

IsClDriverEvents(logFile) == ReaderEvents("log", logFile.exists, TRUE)

\* __ReadRefGeomVals: the log inside IsClDriverCase(), then the geometry file
RefGeomEvents(ok, logFile, infinFile, infoutFile) ==
    IsClDriverEvents(logFile) \o
    ( IF ~logFile.exists THEN <<>>
      ELSE ReaderEvents(GeomFileName(logFile),
                        GeomSource(logFile, infinFile, infoutFile).exists, ok) )

\* Process: the readers up to the one named by step, which raised ("" if
\* none did)
ProcessEvents(step, logFile, info1File, infinFile, infoutFile) ==
    LET e1 == ReaderEvents("log", logFile.exists, step # "ReadRefVals")
        e2 == ReaderEvents("log", logFile.exists, step # "ReadBcInfos")
        e3 == RefGeomEvents(step # "ReadRefGeomVals", logFile, infinFile, infoutFile)
        e4 == ReaderEvents("info1", info1File.exists, step # "ReadForces")
    IN  IF step = "ReadRefVals" THEN e1
        ELSE IF step = "ReadBcInfos" THEN e1 \o e2
        ELSE IF step = "ReadRefGeomVals" THEN e1 \o e2 \o e3
        ELSE e1 \o e2 \o e3 \o e4

\* the names of the files opened, in order
RECURSIVE Opened(_)
Opened(events) ==
    IF events = <<>> THEN <<>>
    ELSE (IF Head(events).ev = "open" THEN <<Head(events).f>> ELSE <<>>)
         \o Opened(Tail(events))


(***************************************************************************)
(* The getters.  None assigns to a field and none catches an exception: a  *)
(* call returns a value or raises IndexError (an axis index out of 0..2)   *)
(* or ZeroDivisionError to its caller.                                     *)
(***************************************************************************)
Returned(v) == [kind |-> "return", val |-> v]
Raises(e) == [kind |-> e, val |-> <<>>]

\* math.cos(math.radians(a)) and math.sin(math.radians(a)) for the angles of
\* attack of the geometry files, 0 and 5 degrees
Cos(a) == CASE a = 0 -> Scale [] a = 5 * Scale -> (9962 * Scale) \div 10000
Sin(a) == CASE a = 0 -> 0 [] a = 5 * Scale -> (872 * Scale) \div 10000

\* 0.5*refDens*refVmag*refVmag*refArea
CoeffDiv(s) ==
    FMul(FMul(FMul(FMul(Scale \div 2, s.refDens), s.refVmag), s.refVmag), s.refArea)

\* both force axes can be indexed
AxesInRange(s) == InRange(s.force_tol, s.indexLift) /\ InRange(s.force_tol, s.indexDrag)

\* the lift numerator with the two trigonometric factors exchanged
LiftOfSwapped(s, f) ==
    FMul(At(f, s.indexLift), Sin(s.alpha)) - FMul(At(f, s.indexDrag), Cos(s.alpha))
\* the numerators of GetCoeffLift and GetCoeffDrag for one force vector
LiftOf(s, f) ==
    FMul(At(f, s.indexLift), Cos(s.alpha)) - FMul(At(f, s.indexDrag), Sin(s.alpha))
DragOf(s, f) ==
    FMul(At(f, s.indexLift), Sin(s.alpha)) + FMul(At(f, s.indexDrag), Cos(s.alpha))

GetCoeffLift(s) ==
    IF ~AxesInRange(s) THEN Raises("IndexError")
    ELSE IF CoeffDiv(s) = 0 THEN Raises("ZeroDivisionError")
    ELSE Returned(<< FDiv(LiftOf(s, s.force_tol), CoeffDiv(s)),
                     FDiv(LiftOf(s, s.force_inv), CoeffDiv(s)),
                     FDiv(LiftOf(s, s.force_vis), CoeffDiv(s)) >>)

GetCoeffDrag(s) ==
    IF ~AxesInRange(s) THEN Raises("IndexError")
    ELSE IF CoeffDiv(s) = 0 THEN Raises("ZeroDivisionError")
    ELSE Returned(<< FDiv(DragOf(s, s.force_tol), CoeffDiv(s)),
                     FDiv(DragOf(s, s.force_inv), CoeffDiv(s)),
                     FDiv(DragOf(s, s.force_vis), CoeffDiv(s)) >>)

\* the quotient with 0.0 returned for a zero drag coefficient
LDRatioOfGuarded(cl, cd) ==
    IF cd[1] = 0 THEN Returned(<<0>>) ELSE Returned(<<FDiv(cl[1], cd[1])>>)
\* ld = cl[0]/cd[0] without a test of cd[0]
LDRatioOf(cl, cd) ==
    IF cd[1] = 0 THEN Raises("ZeroDivisionError") ELSE Returned(<<FDiv(cl[1], cd[1])>>)

GetLDRatio(s) ==
    LET cl == GetCoeffLift(s)
        cd == GetCoeffDrag(s)
    IN  IF cl.kind # "return" THEN cl
        ELSE IF cd.kind # "return" THEN cd
        ELSE LDRatioOf(cl.val, cd.val)

GetCoeffMoment(s) ==
    LET coeff_div == FMul(CoeffDiv(s), s.refLength)
    IN  IF ~(InRange(s.moment, s.indexSide) /\ AxesInRange(s)) THEN Raises("IndexError")
        ELSE IF coeff_div = 0 THEN Raises("ZeroDivisionError")
        ELSE Returned(<< FDiv(At(s.moment, s.indexSide)
                                + FMul(At(s.force_tol, s.indexLift), At(s.refOrign, s.indexDrag))
                                - FMul(At(s.force_tol, s.indexDrag), At(s.refOrign, s.indexLift)),
                              coeff_div) >>)

GetCenterOfPressure(s) ==
    IF ~(InRange(s.moment, s.indexSide) /\ InRange(s.force_tol, s.indexLift))
    THEN Raises("IndexError")
    ELSE IF At(s.force_tol, s.indexLift) = 0 THEN Raises("ZeroDivisionError")
    ELSE Returned(<<FDiv(At(s.moment, s.indexSide), At(s.force_tol, s.indexLift))>>)

\* the fields after a getter has run, with the centre of pressure kept in
\* xCenterOfPressure
GetterFieldsCaching(s) ==
    IF GetCenterOfPressure(s).kind = "return"
    THEN [s EXCEPT !.xCenterOfPressure = GetCenterOfPressure(s).val[1]]
    ELSE s
\* the fields after a getter has run: no getter has an assignment to one
GetterFields(s) == s

\* what the five getters give in a state
GetterOutcomes(s) ==
    << GetCoeffLift(s), GetCoeffDrag(s), GetLDRatio(s), GetCoeffMoment(s),
       GetCenterOfPressure(s) >>

(***************************************************************************)
(* FindWing: no try, no close().  isWingLowerFound is first bound by the   *)
(* WINGLOWER branch (the initialisation names isWingLowerFoudn), so the    *)
(* return expression raises UnboundLocalError where it reads the name      *)
(* unbound; "and" reads it only if isWingUpperFound is True.               *)
(***************************************************************************)
WingState(s, upper, lower, kind) ==
    [s |-> s, upper |-> upper, lower |-> lower, kind |-> kind]

\* the two if statements of the loop body on one line
WingLine(w, line) ==
    LET u == IF ~LineHas(line, "WINGUPPER") THEN w
             ELSE IF IsInt(line[1])
                  THEN WingState([w.s EXCEPT !.idUpper = IntValue(line[1])],
                                 TRUE, w.lower, w.kind)
                  ELSE WingState(w.s, w.upper, w.lower, "ValueError")
    IN  IF u.kind # "return" \/ ~LineHas(line, "WINGLOWER") THEN u
        ELSE IF IsInt(line[1])
             THEN WingState([u.s EXCEPT !.idLower = IntValue(line[1])],
                            u.upper, "True", u.kind)
             ELSE WingState(u.s, u.upper, u.lower, "ValueError")

RECURSIVE WingScanFrom(_, _, _)
WingScanFrom(w, lines, i) ==
    IF w.kind # "return" \/ i > Len(lines) THEN w
    ELSE WingScanFrom(WingLine(w, lines[i]), lines, i + 1)

\* isWingUpperFound and isWingLowerFound
WingReturn(w) ==
    IF w.kind # "return" THEN [kind |-> w.kind, val |-> <<>>, s |-> w.s]
    ELSE IF ~w.upper THEN [kind |-> "return", val |-> <<FALSE>>, s |-> w.s]
    ELSE IF w.lower = "unbound"
         THEN [kind |-> "UnboundLocalError", val |-> <<>>, s |-> w.s]
    ELSE [kind |-> "return", val |-> <<TRUE>>, s |-> w.s]

\* the outcome of FindWing() and the fields it leaves
FindWingOutcome(s, logFile) ==
    IF ~logFile.exists THEN [kind |-> "FileNotFoundError", val |-> <<>>, s |-> s]
    ELSE WingReturn(WingScanFrom(WingState(s, FALSE, "unbound", "return"),
                                 logFile.lines, 1))

\* FindWing has an open() and no close()
FindWingEvents(logFile) == IF logFile.exists THEN <<Open("log")>> ELSE <<>>

(***************************************************************************)
(* Open handles.  An operation's own handles are a list, close() removing  *)
(* the handle it closes; the handles that earlier operations left open are *)
(* a set of file names.                                                    *)
(***************************************************************************)
Max(S) == CHOOSE x \in S : \A y \in S : y <= x

RECURSIVE Without(_, _)
\* a list of handles without the last handle of file f
Without(own, f) ==
    IF own = <<>> THEN <<>>
    ELSE IF own[Len(own)] = f THEN SubSeq(own, 1, Len(own) - 1)
    ELSE Append(Without(SubSeq(own, 1, Len(own) - 1), f), own[Len(own)])

\* the operation's handles after the first n events
RECURSIVE OwnAfter(_, _)
OwnAfter(events, n) ==
    IF n = 0 THEN <<>>
    ELSE IF events[n].ev = "open" THEN Append(OwnAfter(events, n - 1), events[n].f)
    ELSE Without(OwnAfter(events, n - 1), events[n].f)

\* the handles an operation leaves open when it returns
LeftOpen(events) ==
    {OwnAfter(events, Len(events))[i] : i \in 1..Len(OwnAfter(events, Len(events)))}

\* the largest number of handles open at one moment of an operation that
\* starts with the handles of held open
PeakOpen(held, events) ==
    Max({Cardinality(held) + Len(OwnAfter(events, n)) : n \in 0..Len(events)})

(***************************************************************************)
(* The case directories the model runs the program on.  A directory is a   *)
(* record of its four files; the families below each vary one file.        *)
(***************************************************************************)
File(lines) == [exists |-> TRUE, lines |-> lines]
NoFile == [exists |-> FALSE, lines |-> <<>>]

SeqsUpTo(S, n) == UNION {[1..k -> S] : k \in 0..n}

Case(dir, log, info1, infin, infout) ==
    [dir |-> dir, log |-> log, info1 |-> info1, infin |-> infin, infout |-> infout]

NoSlipLine == <<"#", "No-slip", "adiabatic", "wall">>
\* the marker inside other text
NoSlipLine2 == <<"12", "#", "No-slip", "adiabatic", "wall">>
TempLine == <<"aero_temp", "=", "2">>

\* line i of a report: three numerals that differ from line to line
Digits == <<"0", "1", "2", "3", "4", "5", "7">>
ReportLine(i, m) ==
    <<"r", "=", Digits[((i * m) % 7) + 1], Digits[((i * m + 2) % 7) + 1],
      Digits[((i * m + 3) % 7) + 1]>>
\* a line whose third field is no number and that has no fifth field
BadReportLine == <<"r", "=", "x", "1">>
\* a report of n lines; bad > 0 puts BadReportLine bad lines before the end
Report(n, m, bad) ==
    [i \in 1..n |-> IF bad > 0 /\ i = n - bad + 1 THEN BadReportLine
                    ELSE ReportLine(i, m)]

BaseLog ==
    << <<"aero_pres", "=", "574">>, TempLine, <<"aero_u", "=", "3">>,
       <<"aero_v", "=", "4">>, <<"mbcons", "=", "1">>, <<"bc", "1">>,
       <<"type">>, NoSlipLine >>
BaseReport == Report(BlockLines + 1, 1, 0)
BaseGeom == << <<"alpha", "0">>, <<"axref", "1">>, <<"lxref", "2">>, <<"plane", "xy">> >>
OtherGeom == << <<"alpha", "5">>, <<"axref", "2">>, <<"plane", "xz">> >>

\* the reference-condition family: the log's first lines vary
RefLineSet ==
    { <<"aero_pres", "=", "574">>, <<"aero_pres_ref", "=", "5">>,
      TempLine, <<"aero_temp", "=", "3">>,
      <<"aero_temp", "=", "5", "K">>,
      <<"aero_u", "=", "3">>, <<"aero_v", "=", "4">>,
      <<"aero_w", "=", "2.5">>, <<"aero_u", "=", "abc">>,
      <<"aero_u", "aero_v", "1">> }
RefTail == << <<"mbcons", "=", "1">>, <<"bc", "1">>, <<"type">>, NoSlipLine >>
\* with and without a temperature line of four fields after them
RefCases ==
    { Case(TRUE, File(p \o q \o RefTail), File(BaseReport), File(BaseGeom), NoFile) :
        p \in SeqsUpTo(RefLineSet, MaxRefLen),
        q \in {<<>>, << <<"aero_temp", "=", "5", "K">> >>} }

\* the boundary family: the log's first lines vary, the last gives the
\* temperature
BcLineSet ==
    { <<"bc", "1">>, <<"bc", "2">>, <<"type">>, NoSlipLine, NoSlipLine2,
      <<"mbcons", "=", "1">> }
CountLineSet ==
    { <<"mbcons", "=", "1">>, <<"mbcons", "=", "2">>, <<"mbcons", "2">>,
      <<"mbcons", "=", "2.5">>, <<"set", "mbcons", "=", "1">> }
CountTail == << <<"bc", "1">>, <<"type">>, NoSlipLine, TempLine >>
BcLogs ==
    { p \o <<TempLine>> : p \in SeqsUpTo(BcLineSet, MaxBcLen) }
      \cup { p \o CountTail : p \in SeqsUpTo(CountLineSet, 2) }
BcCases ==
    { Case(TRUE, File(l), File(Report(2 * BlockLines + 1, 1, 0)),
           File(BaseGeom), NoFile) : l \in BcLogs }

\* the force family: the report's length and content vary, and the log's
\* boundary count and no-slip list
RECURSIVE WallLines(_)
WallLines(w) ==
    IF w = <<>> THEN <<>>
    ELSE << <<"bc", Head(w)>>, <<"type">>, NoSlipLine >> \o WallLines(Tail(w))
ForceLog(n, w) ==
    <<TempLine>> \o (IF n = "" THEN <<>> ELSE << <<"mbcons", "=", n>> >>)
                 \o WallLines(w)
ForceLogs ==
    { ForceLog(n, w) : n \in {"", "1", "2"}, w \in SeqsUpTo({"1", "2", "3"}, 2) }
\* the lengths: none, short of one block, and about one and two blocks
ReportLengths ==
    {0, 10} \cup { k * BlockLines + h : k \in 1..2, h \in (0 - 2)..MaxHead }
Reports ==
    { Report(n, m, bad) : n \in ReportLengths, m \in {1, 2}, bad \in {0, 14, 19} }
ForceCases ==
    { Case(TRUE, File(l), File(rep), File(BaseGeom), NoFile) :
        l \in ForceLogs, rep \in Reports }

\* the geometry family: the geometry file read varies, with and without the
\* CL-driver marker in the log
GeomLineSet ==
    { <<"alpha", "0">>, <<"alpha", "abc">>, <<"axref", "1">>, <<"lxref", "2">>,
      <<"xcen", "1">>, <<"zcen", "3">>, <<"plane", "xy">>, <<"plane", "xz">>,
      <<"symm_plane", "yz", "x">>, <<"plane">> }
ClLine == <<"cldriver_controls", "1">>
GeomCases ==
    { Case(TRUE, File(BaseLog), File(BaseReport), File(g), File(OtherGeom)) :
        g \in SeqsUpTo(GeomLineSet, MaxGeomLen) }
      \cup
    { Case(TRUE, File(<<ClLine>> \o BaseLog), File(BaseReport), File(OtherGeom), File(g)) :
        g \in SeqsUpTo(GeomLineSet, MaxGeomLen) }

\* the file-system family: each file is there or not
Present(b, lines) == IF b THEN File(lines) ELSE NoFile
FsCases ==
    { Case(FALSE, NoFile, NoFile, NoFile, NoFile) }
      \cup
    { Case(TRUE, Present(a, l), Present(b, BaseReport), Present(c, BaseGeom),
           Present(d, OtherGeom)) :
        a \in BOOLEAN, b \in BOOLEAN, c \in BOOLEAN, d \in BOOLEAN,
        l \in {BaseLog, <<ClLine>> \o BaseLog} }

\* the wing family: the log's first lines name wing boundaries
WingLineSet ==
    { <<"3", "WINGUPPER">>, <<"4", "WINGLOWER">>, <<"5", "WINGUPPER">>,
      <<"x", "WINGLOWER">>, <<"7", "WINGUPPER", "WINGLOWER">> }
WingCases ==
    { Case(TRUE, File(p \o BaseLog), File(BaseReport), File(BaseGeom), NoFile) :
        p \in SeqsUpTo(WingLineSet, MaxWingLen) }

\* the coefficient family: the loads, the angle of attack and the symmetry
\* plane vary
CoeffGeoms ==
    { BaseGeom,
      << <<"alpha", "5">>, <<"axref", "1">>, <<"lxref", "2">>, <<"plane", "xy">> >>,
      << <<"alpha", "0">>, <<"axref", "2">>, <<"lxref", "2">>, <<"zcen", "3">>,
         <<"plane", "xz">> >> }
CoeffCases ==
    { Case(TRUE, File(BaseLog), File(Report(BlockLines + h, m, 0)), File(g), NoFile) :
        h \in 1..MaxHead, m \in {1, 2, 7}, g \in CoeffGeoms }

Cases ==
    RefCases \cup BcCases \cup ForceCases \cup GeomCases \cup FsCases
        \cup WingCases \cup CoeffCases

(***************************************************************************)
(* The state: the case directory (the program only reads it), the object's *)
(* fields, whether the object exists and the program runs, the number of   *)
(* Process calls that have returned, the reader whose except clause ended  *)
(* the program ("" while none has), and the files of which an operation    *)
(* that has returned left a handle open.                                   *)
(***************************************************************************)
VARIABLES dirExists, logFile, info1File, infinFile, infoutFile,
          self, status, runs, exitedIn, handles

files == <<dirExists, logFile, info1File, infinFile, infoutFile>>
vars == <<dirExists, logFile, info1File, infinFile, infoutFile,
          self, status, runs, exitedIn, handles>>

Init ==
    /\ \E c \in Cases :
          /\ dirExists = c.dir
          /\ logFile = c.log
          /\ info1File = c.info1
          /\ infinFile = c.infin
          /\ infoutFile = c.infout
    /\ self = InitFields
    /\ status = "unborn"
    /\ runs = 0
    /\ exitedIn = ""
    /\ handles = {}

\* CFDppParser(caseName): __Validate runs and its value is dropped
Construct ==
    /\ status = "unborn"
    /\ Validate(dirExists, logFile, info1File, infinFile, infoutFile) \in BOOLEAN
    /\ self' = InitFields
    /\ status' = "live"
    /\ UNCHANGED <<files, runs, exitedIn, handles>>

\* Process(): returns, or ends the program in exit(1)
Process ==
    /\ status = "live"
    /\ runs < MaxRuns
    /\ LET out == ProcessOutcome(self, logFile, info1File, infinFile, infoutFile)
           events == ProcessEvents(out.step, logFile, info1File, infinFile, infoutFile)
       IN  /\ self' = out.s
           /\ status' = IF out.ok THEN "live" ELSE "exited"
           /\ runs' = IF out.ok THEN runs + 1 ELSE runs
           /\ exitedIn' = out.step
           /\ handles' = IF out.ok THEN handles \cup LeftOpen(events) ELSE {}
    /\ UNCHANGED files

\* IsClDriverCase(): returns a boolean, or ends the program in exit(1) when
\* the log cannot be opened
IsClDriverCase ==
    /\ status = "live"
    /\ IF logFile.exists
       THEN /\ IsClDriverLog(logFile.lines) \in BOOLEAN
            /\ handles' = handles \cup LeftOpen(IsClDriverEvents(logFile))
            /\ UNCHANGED <<status, exitedIn>>
       ELSE /\ status' = "exited"
            /\ exitedIn' = "IsClDriverCase"
            /\ handles' = {}
    /\ UNCHANGED <<files, self, runs>>

\* FindWing(): returns a boolean or raises to its caller; in both cases the
\* object lives on with the ids assigned so far and the log's handle open
FindWing ==
    /\ status = "live"
    /\ self' = FindWingOutcome(self, logFile).s
    /\ handles' = handles \cup LeftOpen(FindWingEvents(logFile))
    /\ UNCHANGED <<files, status, runs, exitedIn>>

\* the runtime closes a file whose handle no name refers to any more, at a
\* time of its choosing
ReleaseHandle ==
    /\ status = "live"
    /\ handles # {}
    /\ handles' = {}
    /\ UNCHANGED <<files, self, status, runs, exitedIn>>

\* a getter call: it returns or raises to its caller
GetterCall(outcome) ==
    /\ status = "live"
    /\ outcome.kind \in {"return", "IndexError", "ZeroDivisionError"}
    /\ self' = GetterFields(self)
    /\ UNCHANGED <<files, status, runs, exitedIn, handles>>

GetCoeffLiftCall == GetterCall(GetCoeffLift(self))
GetCoeffDragCall == GetterCall(GetCoeffDrag(self))
GetLDRatioCall == GetterCall(GetLDRatio(self))
GetCoeffMomentCall == GetterCall(GetCoeffMoment(self))
GetCenterOfPressureCall == GetterCall(GetCenterOfPressure(self))

Next ==
    \/ Construct
    \/ Process
    \/ IsClDriverCase
    \/ FindWing
    \/ ReleaseHandle
    \/ GetCoeffLiftCall
    \/ GetCoeffDragCall
    \/ GetLDRatioCall
    \/ GetCoeffMomentCall
    \/ GetCenterOfPressureCall

Spec == Init /\ [][Next]_vars


(***************************************************************************)
(* Properties                                                              *)
(***************************************************************************)
\* a Process call has returned on the object and the program still runs
Extracted == status = "live" /\ runs >= 1
\* the first Process call on the object has returned, and no other
ExtractedOnce == status = "live" /\ runs = 1

\* C1: an object exists only for a case directory that passes validation (the
\* directory, the run log, the report and one of the two geometry files are
\* there): constructing one for any other directory fails.
C1_ConstructionValidates ==
    status = "live" =>
        Validate(dirExists, logFile, info1File, infinFile, infoutFile)

\* the values the claim C2 lists
ExtractedValues(s) ==
    <<s.refVmag, s.refDens, s.refMach, s.numBounds, s.noSlipWalls,
      s.force_tol, s.force_inv, s.force_vis, s.moment>>

\* C2: a Process call after the first leaves every extracted value (velocity
\* magnitude, density, Mach, boundary count, no-slip list, forces, moment) as
\* the first call left it.
C2_ProcessIdempotent ==
    [][(Extracted /\ status' = "live" /\ runs' = runs + 1)
          => ExtractedValues(self') = ExtractedValues(self)]_vars

\* the boundaries of 1..numBounds that are in the no-slip list
NoSlipSet(s) ==
    {i \in 1..s.numBounds : \E j \in 1..Len(s.noSlipWalls) : s.noSlipWalls[j] = i}

\* the number in column col (0-based) of the line at offset off of boundary
\* i's block, the blocks of the n boundaries being addressed from the end of
\* the report
BlockField(lines, n, i, off, col) ==
    FloatValue(lines[(Len(lines) - BlockLines * n + 1)
                       + BlockLines * (i - 1) + off + 1][col + 1])

\* the sum of that number over the boundaries in S
RECURSIVE SumBlocks(_, _, _, _, _)
SumBlocks(S, lines, n, off, col) ==
    IF S = {} THEN 0
    ELSE LET i == CHOOSE x \in S : TRUE
         IN  BlockField(lines, n, i, off, col)
               + SumBlocks(S \ {i}, lines, n, off, col)

\* the report holds a block of BlockLines lines for each declared boundary
HoldsBlocks(lines, n) == Len(lines) >= BlockLines * n

AllLoadsZero(s) ==
    /\ s.force_tol = Zero3 /\ s.force_inv = Zero3
    /\ s.force_vis = Zero3 /\ s.moment = Zero3

\* C3: after the first Process each load component is the sum, over the
\* boundaries of 1..numBounds in the no-slip list, of its number in the
\* boundary's block (the report holding a block for each boundary), and all
\* are 0 when no boundary is no-slip.
C3_LoadsSumNoSlipBlocks ==
    ExtractedOnce =>
        /\ NoSlipSet(self) = {} => AllLoadsZero(self)
        /\ HoldsBlocks(info1File.lines, self.numBounds) =>
              \A k \in 1..Len(ForceStmts) :
                  self[ForceStmts[k].fld][ForceStmts[k].c]
                    = SumBlocks(NoSlipSet(self), info1File.lines, self.numBounds,
                                ForceStmts[k].off, ForceStmts[k].col)

\* C3's case: of two boundaries with blocks in the report only the second is
\* no-slip, and it carries load
C3_Witness ==
    /\ ExtractedOnce
    /\ self.numBounds = 2
    /\ HoldsBlocks(info1File.lines, 2)
    /\ NoSlipSet(self) = {2}
    /\ self.force_tol # Zero3
    /\ BlockField(info1File.lines, 2, 1, 3, 2) # 0

AxisIndices(s) == <<s.indexDrag, s.indexLift, s.indexSide>>

\* C4: after an extraction that completed the (drag, lift, side) indices are
\* (0,1,2) or (0,2,1), never a third assignment.
C4_AxisAssignmentOneOfTwo ==
    Extracted => AxisIndices(self) \in {<<0, 1, 2>>, <<0, 2, 1>>}


\* the no-slip marker is on the first or the second line of the log
EarlyMarker(lines) ==
    \E p \in 1..2 : p <= Len(lines) /\ HasNoSlipMarker(lines[p])

\* C5: with the no-slip marker on the first or second line of the run log
\* Process does not return: the reader fails instead of taking an index from
\* another line.
C5_EarlyMarkerFails ==
    (logFile.exists /\ EarlyMarker(logFile.lines)) => runs = 0

\* C6: Process returns only when the report holds BlockLines lines for each
\* declared boundary, and no block line it reads has a negative index.
C6_ShortReportFails ==
    Extracted =>
        /\ HoldsBlocks(info1File.lines, self.numBounds)
        /\ \A i \in NoSlipSet(self) :
              BlockIndex(Len(info1File.lines), self.numBounds, i - 1) + 3 >= 0

\* some line of the log holds the token, has three fields and no number as
\* the third
BadRefValue(lines) ==
    \E i \in 1..Len(lines) : \E k \in 1..Len(RefTokens) :
        RefMatches(lines[i], RefTokens[k]) /\ ~IsFloat(lines[i][3])

\* C7: the reference-condition reader never ends Process because a token has
\* no matching line: when it ends the program, the log is missing or holds a
\* matching line whose value is no number.
C7_LenientMissNeverAborts ==
    exitedIn = "ReadRefVals" => (~logFile.exists \/ BadRefValue(logFile.lines))

\* the field of the object that token k of RefTokens is read into
RefField(s, k) ==
    CASE k = 1 -> s.refPres
      [] k = 2 -> s.refTemp
      [] k = 3 -> s.refVels[1]
      [] k = 4 -> s.refVels[2]
      [] k = 5 -> s.refVels[3]

\* the lines of the log that hold the token and have exactly three fields
MatchingLines(lines, tok) ==
    {i \in 1..Len(lines) : LineHas(lines[i], tok) /\ Len(lines[i]) = 3}


\* the third field of the last matching line, 0.0 without one
LastValue(lines, tok) ==
    IF MatchingLines(lines, tok) = {} THEN 0
    ELSE FloatValue(lines[Max(MatchingLines(lines, tok))][3])

\* C8: after Process each of pressure, temperature and the velocity components
\* is the third field of the last log line that holds its token and has
\* exactly three fields (0.0 without such a line).
C8_LastThreeFieldLineWins ==
    Extracted =>
        \A k \in 1..Len(RefTokens) :
            RefField(self, k) = LastValue(logFile.lines, RefTokens[k])

\* C8's case: two matching temperature lines with different values, and after
\* them a line with the token and four fields
C8_Witness ==
    /\ Extracted
    /\ \E i, j, k \in 1..Len(logFile.lines) :
          /\ i < j /\ j < k
          /\ {i, j} \subseteq MatchingLines(logFile.lines, "aero_temp")
          /\ logFile.lines[i][3] # logFile.lines[j][3]
          /\ LineHas(logFile.lines[k], "aero_temp")
          /\ Len(logFile.lines[k]) = 4

\* C9: after the boundary-condition reader every index of the no-slip list
\* lies in 1..numBounds.
C9_NoSlipWithinCount ==
    Extracted =>
        \A j \in 1..Len(self.noSlipWalls) :
            self.noSlipWalls[j] \in 1..self.numBounds

\* the 0-based positions of the lines of the log that hold the marker
MarkerPositions(lines) == {p \in 0..(Len(lines) - 1) : HasNoSlipMarker(lines[p + 1])}
\* the k-th of them in file order
KthMarker(lines, k) ==
    CHOOSE p \in MarkerPositions(lines) :
        Cardinality({q \in MarkerPositions(lines) : q < p}) = k - 1

\* what a Process call has appended to the no-slip list
Appended(before, after) == SubSeq(after, Len(before) + 1, Len(after))

\* C10: a Process call that returns appends to the no-slip list one entry per
\* marker line of the log, in file order, and the entry of a marker at
\* position p >= 2 is the second field of the line at p - 2.
C10_OneEntryPerMarker ==
    [][(status = "live" /\ status' = "live" /\ runs' = runs + 1) =>
          LET app == Appended(self.noSlipWalls, self'.noSlipWalls)
              n == Cardinality(MarkerPositions(logFile.lines))
          IN  /\ self'.noSlipWalls = self.noSlipWalls \o app
              /\ Len(app) = n
              /\ \A k \in 1..n :
                    LET p == KthMarker(logFile.lines, k)
                        head == logFile.lines[p - 2 + 1]
                    IN  p >= 2 => /\ Len(head) >= 2
                                  /\ IsInt(head[2])
                                  /\ app[k] = IntValue(head[2])
      ]_vars

\* C10's case: two marker lines of the same text at positions >= 2, whose
\* lines two above give different indices, and Process has returned
C10_Witness ==
    /\ Extracted
    /\ \E p, q \in MarkerPositions(logFile.lines) :
          /\ 2 <= p /\ p < q
          /\ logFile.lines[p + 1] = logFile.lines[q + 1]
          /\ logFile.lines[p - 1][2] # logFile.lines[q - 1][2]

\* the geometry fields in the order of GeomKeys
GeomField(s, k) ==
    CASE k = 1 -> s.alpha
      [] k = 2 -> s.refArea
      [] k = 3 -> s.refLength
      [] k = 4 -> s.refOrign[1]
      [] k = 5 -> s.refOrign[2]
      [] k = 6 -> s.refOrign[3]

\* the lines of a file that hold a token
LinesWith(lines, tok) == {i \in 1..Len(lines) : LineHas(lines[i], tok)}

\* the second field of the last line that holds the keyword as a float, 0.0
\* without such a line; no value where that field is missing or no float
LastGeomValue(lines, tok) ==
    IF LinesWith(lines, tok) = {} THEN <<0>>
    ELSE LET line == lines[Max(LinesWith(lines, tok))]
         IN  IF Len(line) >= 2 /\ IsFloat(line[2]) THEN <<FloatValue(line[2])>>
             ELSE <<>>

\* the geometry file that C11 names for a log
ClaimedGeomFile ==
    IF \E i \in 1..Len(logFile.lines) :
           \E j \in 1..Len(logFile.lines[i]) :
               logFile.lines[i][j] = "cldriver_controls"
    THEN [name |-> "infout", file |-> infoutFile]
    ELSE [name |-> "infin", file |-> infinFile]

\* the files an extraction of the case opens, in order
ProcessOpened ==
    Opened(ProcessEvents(
        ProcessOutcome(self, logFile, info1File, infinFile, infoutFile).step,
        logFile, info1File, infinFile, infoutFile))

\* the geometry files among them
GeomOpened ==
    {i \in 1..Len(ProcessOpened) : ProcessOpened[i] \in {"infin", "infout"}}

\* C11: after Process the geometry values are those of the geometry-output
\* file if some log line holds the control-block marker and those of the
\* geometry-input file otherwise, and an extraction opens exactly one of the
\* two geometry files, the one so chosen.
C11_GeometrySourceByMarker ==
    Extracted =>
        /\ \A k \in 1..Len(GeomKeys) :
              <<GeomField(self, k)>>
                  = LastGeomValue(ClaimedGeomFile.file.lines, GeomKeys[k])
        /\ Cardinality(GeomOpened) = 1
        /\ \A i \in GeomOpened : ProcessOpened[i] = ClaimedGeomFile.name

\* C11's case: the marker is in the log, both geometry files exist and give
\* different values
C11_Witness ==
    /\ Extracted
    /\ ClaimedGeomFile.name = "infout"
    /\ infinFile.exists /\ infoutFile.exists
    /\ \E k \in 1..Len(GeomKeys) :
          /\ LastGeomValue(infinFile.lines, GeomKeys[k]) # <<>>
          /\ LastGeomValue(infinFile.lines, GeomKeys[k])
                # LastGeomValue(infoutFile.lines, GeomKeys[k])

\* C11's other case: no marker in the log, both geometry files exist and give
\* different values
C11_WitnessInput ==
    /\ Extracted
    /\ ClaimedGeomFile.name = "infin"
    /\ infinFile.exists /\ infoutFile.exists
    /\ \E k \in 1..Len(GeomKeys) :
          /\ LastGeomValue(infoutFile.lines, GeomKeys[k]) # <<>>
          /\ LastGeomValue(infinFile.lines, GeomKeys[k])
                # LastGeomValue(infoutFile.lines, GeomKeys[k])

\* a step of one of the five getters
GetterStep ==
    \/ GetCoeffLiftCall
    \/ GetCoeffDragCall
    \/ GetLDRatioCall
    \/ GetCoeffMomentCall
    \/ GetCenterOfPressureCall

\* C12: a call of GetCoeffLift, GetCoeffDrag, GetLDRatio, GetCoeffMoment or
\* GetCenterOfPressure leaves every field of the object as it was, and the
\* five getters give after the call what they gave before it.
C12_GettersPure ==
    [][GetterStep => (self' = self /\ GetterOutcomes(self') = GetterOutcomes(self))]_vars

\* C12's case: after Process all five getters return a value, and the lift
\* is not zero
C12_Witness ==
    /\ Extracted
    /\ \A g \in 1..Len(GetterOutcomes(self)) : GetterOutcomes(self)[g].kind = "return"
    /\ GetCoeffLift(self).val[1] # 0
    /\ GetCenterOfPressure(self).val[1] # 0

\* the three force vectors in the order of the coefficients
ForceVectors(s) == <<s.force_tol, s.force_inv, s.force_vis>>

\* C13: at angle of attack 0, for the total, inviscid and viscous forces, the
\* lift coefficient is force[lift axis]/q and the drag coefficient is
\* force[drag axis]/q, q being 0.5*density*magnitude^2*reference area.
C13_NoCrossTermAtZeroAlpha ==
    (status = "live" /\ self.alpha = 0 /\ AxesInRange(self) /\ CoeffDiv(self) # 0) =>
        /\ GetCoeffLift(self).kind = "return"
        /\ GetCoeffDrag(self).kind = "return"
        /\ \A k \in 1..3 :
              /\ GetCoeffLift(self).val[k]
                    = FDiv(At(ForceVectors(self)[k], self.indexLift), CoeffDiv(self))
              /\ GetCoeffDrag(self).val[k]
                    = FDiv(At(ForceVectors(self)[k], self.indexDrag), CoeffDiv(self))

\* C13's case: after Process the angle of attack is 0, q is not 0 and the
\* forces along the lift and the drag axis are different and not 0
C13_Witness ==
    /\ Extracted
    /\ self.alpha = 0 /\ AxesInRange(self) /\ CoeffDiv(self) # 0
    /\ At(self.force_tol, self.indexLift) # 0
    /\ At(self.force_tol, self.indexDrag) # 0
    /\ At(self.force_tol, self.indexLift) # At(self.force_tol, self.indexDrag)
    /\ GetCoeffLift(self).val[1] # GetCoeffDrag(self).val[1]

\* lift and drag coefficients are both returned
CoeffsReturned(s) == GetCoeffLift(s).kind = "return" /\ GetCoeffDrag(s).kind = "return"

\* C14: where the lift and drag coefficients exist, GetLDRatio returns total
\* lift coefficient / total drag coefficient, and raises ZeroDivisionError
\* instead of returning a value when the total drag coefficient is 0; a
\* GetLDRatio call leaves the fields as they were.
C14_LDRatioDividesOrFails ==
    /\ []((status = "live" /\ CoeffsReturned(self)) =>
            IF GetCoeffDrag(self).val[1] = 0
            THEN GetLDRatio(self) = Raises("ZeroDivisionError")
            ELSE GetLDRatio(self)
                   = Returned(<<FDiv(GetCoeffLift(self).val[1], GetCoeffDrag(self).val[1])>>))
    /\ [][GetLDRatioCall => self' = self]_vars

\* C14's case: after Process the drag coefficient is returned as 0 and the
\* lift coefficient is not 0
C14_Witness ==
    /\ Extracted
    /\ CoeffsReturned(self)
    /\ GetCoeffDrag(self).val[1] = 0
    /\ GetCoeffLift(self).val[1] # 0
    /\ GetLDRatio(self).kind = "ZeroDivisionError"

\* the 0-based indices of the lines of the block the reader addresses for
\* boundary k (1-based)
AddressedBlock(L, N, k) ==
    {BlockIndex(L, N, k - 1) + j : j \in 0..(BlockLines - 1)}

\* the 0-based indices of the last BlockLines * N lines of a file of L lines
TailLines(L, N) == {i \in 0..(L - 1) : i >= L - BlockLines * N}

\* C15: after Process, for a report of L lines that holds 23 lines for each
\* of the N boundaries, the N blocks the reader addresses are in ascending
\* order and make up exactly the last 23*N lines of the report, and the lines
\* read for a boundary are at offsets 3..8 of its block, inside the block.
C15_BlocksTileTail ==
    (Extracted /\ self.numBounds >= 1
       /\ HoldsBlocks(info1File.lines, self.numBounds)) =>
        LET L == Len(info1File.lines)
            N == self.numBounds
        IN  /\ UNION {AddressedBlock(L, N, k) : k \in 1..N} = TailLines(L, N)
            /\ \A k \in 1..(N - 1) :
                  BlockIndex(L, N, k) = BlockIndex(L, N, k - 1) + BlockLines
            /\ \A k \in 1..N : \A n \in 1..Len(ForceStmts) :
                  /\ ForceStmts[n].off \in 3..8
                  /\ BlockIndex(L, N, k - 1) + ForceStmts[n].off \in AddressedBlock(L, N, k)

\* the events of the three public operations that open files, called in the
\* current state
PublicEvents ==
    << [ret |-> ProcessOutcome(self, logFile, info1File, infinFile, infoutFile).ok,
        events |-> ProcessEvents(
            ProcessOutcome(self, logFile, info1File, infinFile, infoutFile).step,
            logFile, info1File, infinFile, infoutFile)],
       [ret |-> logFile.exists, events |-> IsClDriverEvents(logFile)],
       [ret |-> FindWingOutcome(self, logFile).kind = "return",
        events |-> FindWingEvents(logFile)] >>

\* C16: between operations no file handle is open; during Process,
\* IsClDriverCase or FindWing at most one file is open at a time, and one
\* that returns normally has closed every file it opened.
C16_OneHandleAtATime ==
    status = "live" =>
        /\ handles = {}
        /\ \A o \in 1..Len(PublicEvents) :
              /\ PeakOpen(handles, PublicEvents[o].events) <= 1
              /\ PublicEvents[o].ret => LeftOpen(PublicEvents[o].events) = {}

\* some line of the log holds the marker
HasMarkerLine(lines, marker) == \E i \in 1..Len(lines) : LineHas(lines[i], marker)

\* C17: for every run log FindWing returns a boolean, True exactly when the
\* log has a WINGUPPER line and a WINGLOWER line, and the id of a marker the
\* log does not have stays as it was (-1 on a new object).
C17_FindWingReturnsBoolean ==
    (status = "live" /\ logFile.exists) =>
        LET out == FindWingOutcome(self, logFile)
        IN  /\ out.kind = "return"
            /\ out.val = << HasMarkerLine(logFile.lines, "WINGUPPER")
                             /\ HasMarkerLine(logFile.lines, "WINGLOWER") >>
            /\ ~HasMarkerLine(logFile.lines, "WINGUPPER") => out.s.idUpper = self.idUpper
            /\ ~HasMarkerLine(logFile.lines, "WINGLOWER") => out.s.idLower = self.idLower

=============================================================================
